---- MODULE Spec2Model ----
(***************************************************************************)
(* Model of the download orchestration of irie27/ppd.                      *)
(*                                                                         *)
(*  - src/ppd-1.1.1.py : PlexConnection, DownloadManager and the download  *)
(*    queue of PlexPlaylistDownloaderGUI (specification Spec / FairSpec).  *)
(*  - src/plex_handler.py : PlexHandler.download_playlist_items            *)
(*    (specification SpecPH).                                              *)
(*  - src/ppd-1.1.1.py : one playlist downloaded by                        *)
(*    DownloadManager.download_playlist with its files, bytes and progress *)
(*    reports (specification SpecDL), and the file name it derives for an  *)
(*    item (specification SpecFN).                                         *)
(*  - src/main.py : the download of the selected playlist by              *)
(*    PlexDownloaderApp (specification SpecApp).                           *)
(*  - both item loops, one call at a time (specification SpecLoops).       *)
(*                                                                         *)
(* Strings of the program are sequences of words; the substring test       *)
(* `word in status` of the status callback is membership of the word.      *)
(***************************************************************************)
EXTENDS Integers, Sequences, FiniteSets, TLC

\* ------------------------------------------------------------------ bounds
\* number of queue entries (dicts) created during one run of the program
MaxEntries == 2
\* number of items of the playlist handed to download_playlist_items
MaxItems == 4
\* length of the title and of the container of an item whose file name is
\* derived
MaxLen == 2
\* number of items of the playlist downloaded in detail
MaxDLItems == 2
\* number of chunks a response body yields at most, and the largest
\* content-length, in chunks
MaxChunks == 2
\* number of download threads PlexDownloaderApp starts
MaxThreads == 2
\* number of callbacks waiting in the Kivy clock
MaxPending == 2

\* ------------------------------------------------- the server's playlists
\* Playlist handles of the server, and what playlists() reports for them.
Playlists == {"p1", "p2"}

PlaylistTitle(p) ==
    CASE p = "p1" -> <<"Jazz">>
      [] OTHER    -> <<"Completed", "Works">>

\* leafCount, which is also len(playlist.items())
LeafCount(p) ==
    CASE p = "p1" -> 2
      [] OTHER    -> 1

\* get_music_playlists / get_video_playlists: the audio and the video
\* playlists in server order
ServerMusic == <<"p1">>
ServerVideo == <<"p2">>

NoEntry == [playlist |-> "none", title |-> <<>>, items |-> 0, type |-> "none",
            status |-> "none", downloaded |-> 0, remaining |-> 0]

NoWorker == [pc |-> "none", idx |-> 0]

Ids == 1..MaxEntries

\* PlexHandler.download_playlist_items before it is called
PHIdle == [pc |-> "idle", total |-> 0, outcomes |-> <<>>,
           download_errors |-> <<>>, reached_end |-> FALSE,
           success |-> FALSE, errors |-> <<>>]

\* the file names the items of the playlist downloaded in detail can have;
\* NoFileName is an item whose name cannot be built
FileNames == {"f1", "f2"}
NoFileName == "none"
NoFile == [exists |-> FALSE, whole |-> FALSE]

\* DownloadManager.download_playlist before it is called: the playlist
\* directory holds no file
DLIdle == [pc |-> "idle", run |-> "none", names |-> <<>>, idx |-> 0,
           stop_flag |-> FALSE, files |-> [f \in FileNames |-> NoFile],
           present |-> {}, total_size |-> 0, downloaded |-> 0,
           attempted |-> <<>>, fetched |-> {}, errors |-> {},
           report |-> <<0, 0>>, reported |-> {}, full |-> {},
           cancelled |-> {}, mismatched |-> {}, completed |-> {},
           halted |-> 0, written |-> 0, status |-> "none",
           quiet |-> FALSE, spaced |-> TRUE, entry |-> NoEntry]

\* a download thread of PlexDownloaderApp that was not started
NoThread == [pc |-> "none", stopped |-> FALSE, summary |-> FALSE,
             reenable |-> FALSE]

\* PlexDownloaderApp after build(), with or without a PlexHandler
AppBuilt(handler) ==
    [handler |-> handler, server |-> FALSE, dir_ok |-> FALSE, selected |-> 0,
     action_buttons |-> TRUE, download_button |-> FALSE,
     stop_button |-> FALSE, stop_download_flag |-> FALSE,
     threads |-> [t \in 1..MaxThreads |-> NoThread], started |-> 0,
     clock |-> <<>>]

\* no file name is being derived
FNIdle == [pc |-> "idle", item |-> <<>>, name |-> <<>>]

VARIABLES
    connected,          \* PlexConnection.connected
    has_object,         \* the listed playlists carry an 'object' key
    download_queue,     \* sequence of entry ids (the dicts of the list)
    entries,            \* id -> the dict
    created,            \* number of dicts created so far
    is_downloading,     \* PlexPlaylistDownloaderGUI.is_downloading
    stop_flag,          \* DownloadManager.stop_flag
    timers,             \* pending root.after(1000, process_queue) calls
    worker,             \* id -> the thread started for that entry
    queue_window,       \* the queue window exists
    stop_button,        \* state of the main window's stop button
    queue_stop_button,  \* state of the queue window's stop button
    download_buttons,   \* state of the two add-to-queue buttons
    last,               \* which handler ran last, and what an enqueue did
    ph,                 \* PlexHandler.download_playlist_items run
    dl,                 \* DownloadManager.download_playlist run, in detail
    fn,                 \* a file name derivation: the item and the name
    app  \* PlexDownloaderApp of main.py: the download of the selected playlist

vars == <<connected, has_object, download_queue, entries, created,
          is_downloading, stop_flag, timers, worker, queue_window,
          stop_button, queue_stop_button, download_buttons, last, ph, dl, fn, app>>

guiVars == <<connected, has_object, download_queue, entries, created,
             is_downloading, stop_flag, timers, worker, queue_window,
             stop_button, queue_stop_button, download_buttons, last>>

\* ----------------------------------------------------------------- helpers
\* `word in text` for a text that is a sequence of words
In(word, text) == \E i \in 1..Len(text) : text[i] = word

Range(s) == {s[i] : i \in 1..Len(s)}

\* list.pop(index)
Pop(s, index) == [i \in 1..(Len(s) - 1) |-> IF i < index THEN s[i] ELSE s[i + 1]]

\* the value of last after a handler that is not told apart
Other == [op |-> "other", arg |-> 0, dup |-> FALSE, old |-> FALSE,
          retried |-> FALSE]

\* ----------------------------------------------------- connection, lists
\* PlexPlaylistDownloaderGUI.__init__
InitGUI ==
    /\ connected = FALSE
    /\ has_object = FALSE
    /\ download_queue = <<>>
    /\ entries = [e \in Ids |-> NoEntry]
    /\ created = 0
    /\ is_downloading = FALSE
    /\ stop_flag = FALSE
    /\ timers = 0
    /\ worker = [e \in Ids |-> NoWorker]
    /\ queue_window = FALSE
    /\ stop_button = FALSE
    /\ queue_stop_button = FALSE
    /\ download_buttons = FALSE
    /\ last = Other

Init ==
    /\ InitGUI
    /\ ph = PHIdle
    /\ dl = DLIdle
    /\ fn = FNIdle
    /\ app = AppBuilt(TRUE)

\* PlexConnection.connect, called by connect_to_plex: on success the lists are
\* refreshed from the server (every element then has an 'object'); when
\* PlexServer raises, server and connected keep their values.
ConnectToPlex(ok) ==
    /\ connected' = (IF ok THEN TRUE ELSE connected)
    /\ has_object' = (IF ok THEN TRUE ELSE has_object)
    /\ download_buttons' = (IF ok THEN TRUE ELSE download_buttons)
    /\ last' = (IF ok THEN Other ELSE [Other EXCEPT !.op = "connect_failed"])
    /\ UNCHANGED <<download_queue, entries, created, is_downloading, stop_flag,
                   timers, worker, queue_window, stop_button,
                   queue_stop_button, ph, dl, fn, app>>

\* ------------------------------------------------------------- enqueueing
\* a duplicate check that looks at the waiting entries only
TitleInQueueQueuedOnly(q, ents, title) ==
    \E i \in 1..Len(q) : ents[q[i]].title = title /\ ents[q[i]].status = "Queued"

\* any(q['title'] == title for q in self.download_queue)
TitleInQueue(q, ents, title) ==
    \E i \in 1..Len(q) : ents[q[i]].title = title

\* the playlist_info dict built for a listed playlist
PlaylistInfo(p, type) ==
    [playlist |-> p, title |-> PlaylistTitle(p), items |-> LeafCount(p),
     type |-> type, status |-> "Queued", downloaded |-> 0,
     remaining |-> LeafCount(p)]

\* one round of the loop of add_music_to_queue / add_video_to_queue, for the
\* list element p, on the state st = [q, ents, n]
AddOne(st, p, type) ==
    IF TitleInQueue(st.q, st.ents, PlaylistTitle(p))
    THEN st
    ELSE [q    |-> Append(st.q, st.n + 1),
          ents |-> [st.ents EXCEPT ![st.n + 1] = PlaylistInfo(p, type)],
          n    |-> st.n + 1]

\* the loop over the selection, in the listbox's (ascending) order
RECURSIVE AddAll(_, _, _, _, _)
AddAll(st, list, sel, i, type) ==
    IF i > Len(list) THEN st
    ELSE AddAll(IF i \in sel THEN AddOne(st, list[i], type) ELSE st,
                list, sel, i + 1, type)

\* the selected playlists whose title is the title of an entry of the queue
\* with one of the given statuses
Matching(list, sel, statuses) ==
    {i \in sel : \E k \in 1..Len(download_queue) :
        /\ entries[download_queue[k]].title = PlaylistTitle(list[i])
        /\ entries[download_queue[k]].status \in statuses}

\* the selected playlists whose title is that of Completed or Stopped
\* entries only
OnlyTerminal(list, sel) ==
    Matching(list, sel, {"Completed", "Stopped"})
        \ Matching(list, sel, {"Queued", "Downloading"})

\* what the handler did: how many entries it appended (arg), whether a
\* selected title was that of a Queued or Downloading entry (dup), whether a
\* selected title was that of Completed or Stopped entries only (old), and
\* whether each of the latter has a Queued entry afterwards (retried)
DidAdd(op, list, sel, st) ==
    [op  |-> op, arg |-> st.n - created,
     dup |-> Matching(list, sel, {"Queued", "Downloading"}) # {},
     old |-> OnlyTerminal(list, sel) # {},
     retried |-> \A i \in OnlyTerminal(list, sel) :
                    \E k \in 1..Len(st.q) :
                        /\ st.ents[st.q[k]].title = PlaylistTitle(list[i])
                        /\ st.ents[st.q[k]].status = "Queued"]

\* the dicts the model has room for
Room(list, sel) ==
    created + Cardinality({i \in sel :
        ~TitleInQueue(download_queue, entries, PlaylistTitle(list[i]))})
      <= MaxEntries

AddToQueue(op, list, sel, type) ==
    LET st == AddAll([q |-> download_queue, ents |-> entries, n |-> created],
                     list, sel, 1, type)
    IN  /\ download_queue' = st.q
        /\ entries' = st.ents
        /\ created' = st.n
        /\ last' = DidAdd(op, list, sel, st)
        /\ UNCHANGED <<connected, has_object, is_downloading, stop_flag, timers,
                       worker, queue_window, stop_button, queue_stop_button,
                       download_buttons, ph, dl, fn, app>>

\* add_music_to_queue: the button is enabled, the selection is not empty, and
\* only list elements with an 'object' are considered
AddMusicToQueue(sel) ==
    /\ download_buttons
    /\ sel # {}
    /\ Room(ServerMusic, sel)
    /\ AddToQueue("add_music", ServerMusic, IF has_object THEN sel ELSE {}, "Music")

AddVideoToQueue(sel) ==
    /\ download_buttons
    /\ sel # {}
    /\ Room(ServerVideo, sel)
    /\ AddToQueue("add_video", ServerVideo, IF has_object THEN sel ELSE {}, "Video")

\* a double click that enqueues the element whatever the connection and the
\* element are
OnMusicDoubleClickUnguarded(i) ==
    /\ Room(ServerMusic, {i})
    /\ AddToQueue("music_double_click", ServerMusic, {i}, "Music")

\* on_music_double_click / on_video_double_click: one list element; nothing
\* is done while not connected, and only an element with an 'object' is
\* considered
OnMusicDoubleClick(i) ==
    /\ connected => Room(ServerMusic, {i})
    /\ AddToQueue("music_double_click", ServerMusic,
                  IF connected /\ has_object THEN {i} ELSE {}, "Music")

OnVideoDoubleClick(i) ==
    /\ connected => Room(ServerVideo, {i})
    /\ AddToQueue("video_double_click", ServerVideo,
                  IF connected /\ has_object THEN {i} ELSE {}, "Video")

\* ------------------------------------------------------- the queue window
\* show_queue_window: the stop button of the window is created enabled iff a
\* download is active
ShowQueueWindow ==
    /\ ~queue_window
    /\ queue_window' = TRUE
    /\ queue_stop_button' = is_downloading
    /\ last' = Other
    /\ UNCHANGED <<connected, has_object, download_queue, entries, created,
                   is_downloading, stop_flag, timers, worker, stop_button,
                   download_buttons, ph, dl, fn, app>>

\* remove_from_queue: pops the selected row, whatever its status
RemoveFromQueue(index) ==
    /\ queue_window
    /\ index \in 1..Len(download_queue)
    /\ download_queue' = Pop(download_queue, index)
    /\ last' = [Other EXCEPT !.op = "remove_from_queue"]
    /\ UNCHANGED <<connected, has_object, entries, created, is_downloading,
                   stop_flag, timers, worker, queue_window, stop_button,
                   queue_stop_button, download_buttons, ph, dl, fn, app>>

\* clear_queue: refused while is_downloading; otherwise cleared when the user
\* confirms
ClearQueue(confirm) ==
    /\ queue_window
    /\ download_queue' = (IF ~is_downloading /\ confirm THEN <<>> ELSE download_queue)
    /\ last' = [Other EXCEPT !.op = "clear_queue"]
    /\ UNCHANGED <<connected, has_object, entries, created, is_downloading,
                   stop_flag, timers, worker, queue_window, stop_button,
                   queue_stop_button, download_buttons, ph, dl, fn, app>>

\* --------------------------------------------------------- process_queue
\* a search that keeps the last Queued entry instead of stopping at the first
LastQueued(q, ents) ==
    IF \E i \in 1..Len(q) : ents[q[i]].status = "Queued"
    THEN CHOOSE i \in 1..Len(q) :
            /\ ents[q[i]].status = "Queued"
            /\ \A j \in (i + 1)..Len(q) : ents[q[j]].status # "Queued"
    ELSE 0

\* the loop "find first queued item": the position of the first entry whose
\* status is Queued, 0 when there is none
FirstQueued(q, ents) ==
    IF \E i \in 1..Len(q) : ents[q[i]].status = "Queued"
    THEN CHOOSE i \in 1..Len(q) :
            /\ ents[q[i]].status = "Queued"
            /\ \A j \in 1..(i - 1) : ents[q[j]].status # "Queued"
    ELSE 0

\* process_queue returns early while is_downloading, on an empty queue, while
\* not connected, and when no entry is Queued
CanStart ==
    /\ ~is_downloading
    /\ download_queue # <<>>
    /\ connected
    /\ FirstQueued(download_queue, entries) # 0

\* process_queue, called from the button of the queue window or from
\* root.after
ProcessQueueBody ==
    IF CanStart
    THEN LET e == download_queue[FirstQueued(download_queue, entries)]
         IN  /\ is_downloading' = TRUE
             /\ entries' = [entries EXCEPT ![e].status = "Downloading"]
             /\ download_buttons' = FALSE
             /\ stop_button' = TRUE
             /\ queue_stop_button' = (IF queue_window THEN TRUE ELSE queue_stop_button)
             /\ worker' = [worker EXCEPT ![e] = [NoWorker EXCEPT !.pc = "started"]]
             /\ last' = Other
    ELSE /\ last' = Other
         /\ UNCHANGED <<is_downloading, entries, download_buttons, stop_button,
                        queue_stop_button, worker>>

ProcessQueue ==
    /\ queue_window
    /\ ProcessQueueBody
    /\ UNCHANGED <<connected, has_object, download_queue, created, stop_flag,
                   timers, queue_window, ph, dl, fn, app>>

\* a call of process_queue scheduled by root.after(1000, ...) comes due
TimerFire ==
    /\ timers > 0
    /\ timers' = timers - 1
    /\ ProcessQueueBody
    /\ UNCHANGED <<connected, has_object, download_queue, created, stop_flag,
                   queue_window, ph, dl, fn, app>>

\* stop_download of the GUI (either stop button) and of the DownloadManager
StopDownload ==
    /\ stop_button \/ (queue_window /\ queue_stop_button)
    /\ stop_flag' = TRUE
    /\ stop_button' = FALSE
    /\ download_buttons' = TRUE
    /\ last' = [Other EXCEPT !.op = "stop_download"]
    /\ UNCHANGED <<connected, has_object, download_queue, entries, created,
                   is_downloading, timers, worker, queue_window,
                   queue_stop_button, ph, dl, fn, app>>

\* ------------------------------------------- _download_with_queue_update
\* a progress callback that sets the counters of every entry
ProgressCallbackOfAll(ents, e, current, total, percent) ==
    LET d == IF percent < 100 THEN current - 1 ELSE current
    IN  [x \in DOMAIN ents |-> [ents[x] EXCEPT !.downloaded = d,
                                               !.remaining = total - d]]

\* progress_callback(current, total, filename, percent, speed, overall_speed)
ProgressCallback(ents, e, current, total, percent) ==
    LET d == IF percent < 100 THEN current - 1 ELSE current
    IN  [ents EXCEPT ![e].downloaded = d, ![e].remaining = total - d]

\* only "Completed" in status
FinishesWhenCompleted(status) == In("Completed", status)

\* "Completed" in status or "stopped" in status
Finishes(status) == In("Completed", status) \/ In("stopped", status)

\* what status_callback(status) does to the dict of the entry
StatusEntry(entry, status) ==
    IF In("Completed", status)
    THEN [entry EXCEPT !.status = "Completed", !.downloaded = entry.items,
                       !.remaining = 0]
    ELSE IF In("stopped", status)
         THEN [entry EXCEPT !.status = "Stopped"]
         ELSE entry

\* the value of last after a status callback that marked an entry Completed
DidComplete == [Other EXCEPT !.op = "completed"]
DidStop == [Other EXCEPT !.op = "stopped"]

\* a status callback that does not schedule process_queue
StatusCallbackNoAdvance(e, status, ents) ==
    /\ last' = (IF In("Completed", status) THEN DidComplete
                ELSE IF In("stopped", status) THEN DidStop ELSE Other)
    /\ entries' = [ents EXCEPT ![e] = StatusEntry(ents[e], status)]
    /\ is_downloading' = (IF Finishes(status) THEN FALSE ELSE is_downloading)
    /\ timers' = timers
    /\ download_buttons' = (IF Finishes(status) THEN TRUE ELSE download_buttons)
    /\ stop_button' = (IF Finishes(status) THEN FALSE ELSE stop_button)
    /\ queue_stop_button' = (IF Finishes(status) /\ queue_window THEN FALSE
                             ELSE queue_stop_button)

\* status_callback(status) of the thread of entry e, update_status included;
\* ents is the dict table after the progress callbacks of the same step
StatusCallback(e, status, ents) ==
    /\ last' = (IF In("Completed", status) THEN DidComplete
                ELSE IF In("stopped", status) THEN DidStop ELSE Other)
    /\ entries' = [ents EXCEPT ![e] = StatusEntry(ents[e], status)]
    /\ is_downloading' = (IF Finishes(status) THEN FALSE ELSE is_downloading)
    /\ timers' = (IF Finishes(status) THEN timers + 1 ELSE timers)
    /\ download_buttons' = (IF Finishes(status) THEN TRUE ELSE download_buttons)
    /\ stop_button' = (IF Finishes(status) THEN FALSE ELSE stop_button)
    /\ queue_stop_button' = (IF Finishes(status) /\ queue_window THEN FALSE
                             ELSE queue_stop_button)

\* the three status strings of DownloadManager.download_playlist
MsgDownloading(title) == <<"Downloading", "playlist:">> \o title
MsgStopped == <<"Download", "stopped">>
MsgCompleted(title) ==
    <<"Completed", "downloading", "playlist:">> \o title \o <<"(size", "at", "speed)">>

\* --------------------------------------- DownloadManager.download_playlist
Title(e) == PlaylistTitle(entries[e].playlist)
\* total_items = len(playlist.items())
Total(e) == LeafCount(entries[e].playlist)

\* a download_playlist invocation is running for the entry
Running(e) == worker[e].pc \in {"started", "loop", "transfer"}

\* the first statements: the stop flag is reset, the directory is made and
\* the items are listed (either may raise, which ends the thread), and the
\* first status is reported
DownloadBegin(e, ok) ==
    /\ worker[e].pc = "started"
    /\ stop_flag' = FALSE
    /\ IF ok
       THEN /\ worker' = [worker EXCEPT ![e].pc = "loop"]
            /\ StatusCallback(e, MsgDownloading(Title(e)), entries)
       ELSE /\ worker' = [worker EXCEPT ![e].pc = "raised"]
            /\ last' = Other
            /\ UNCHANGED <<entries, is_downloading, timers, download_buttons,
                           stop_button, queue_stop_button>>
    /\ UNCHANGED <<connected, has_object, download_queue, created,
                   queue_window, ph, dl, fn, app>>

ItemOutcomes == {"name_error", "exists", "request_error", "open"}

\* the head of the item loop and the item's steps up to the chunk loop; past
\* the last item, the statements after the loop. The last status callback and
\* the return of the thread are one step: process_queue is scheduled 1000 ms
\* after the callback, and only logging follows it.
DownloadItem(e, o) ==
    /\ worker[e].pc = "loop"
    /\ UNCHANGED <<connected, has_object, download_queue, created, stop_flag,
                   queue_window, ph, dl, fn, app>>
    /\ LET idx == worker[e].idx
           keep == /\ last' = Other
                   /\ UNCHANGED <<is_downloading, timers, download_buttons,
                                  stop_button, queue_stop_button>>
       IN  IF idx < Total(e) /\ stop_flag
           THEN \* "Download stopped", break; the flag is still set after the loop
                /\ o = "open"
                /\ worker' = [worker EXCEPT ![e].pc = "returned"]
                /\ StatusCallback(e, MsgStopped, entries)
           ELSE IF idx < Total(e)
           THEN CASE o = "name_error" ->
                       /\ worker' = [worker EXCEPT ![e].idx = idx + 1]
                       /\ UNCHANGED entries /\ keep
                  [] o = "exists" ->
                       /\ worker' = [worker EXCEPT ![e].idx = idx + 1]
                       /\ entries' = ProgressCallback(entries, e, idx + 1, Total(e), 100)
                       /\ keep
                  [] o = "request_error" ->
                       /\ worker' = [worker EXCEPT ![e].idx = idx + 1]
                       /\ entries' = ProgressCallback(entries, e, idx + 1, Total(e), 0)
                       /\ keep
                  [] OTHER ->
                       /\ worker' = [worker EXCEPT ![e].pc = "transfer"]
                       /\ entries' = ProgressCallback(entries, e, idx + 1, Total(e), 0)
                       /\ keep
           ELSE /\ o = "open"
                /\ worker' = [worker EXCEPT ![e].pc = "returned"]
                /\ IF ~stop_flag
                   THEN StatusCallback(e, MsgCompleted(Title(e)), entries)
                   ELSE UNCHANGED entries /\ keep

ChunkOutcomes == {"chunk", "end", "error"}

\* the values of percent = int((downloaded / total_size) * 100) that the
\* update inside the chunk loop reports: below 100, and 100 or more
Percents == {50, 100}

\* one round of the chunk loop, or its end: the final progress update follows
\* the loop whether it ended or was left by the stop flag
DownloadChunk(e, o, percent) ==
    /\ worker[e].pc = "transfer"
    /\ last' = Other
    /\ UNCHANGED <<connected, has_object, download_queue, created, stop_flag,
                   is_downloading, timers, download_buttons, stop_button,
                   queue_stop_button, queue_window, ph, dl, fn, app>>
    /\ LET idx == worker[e].idx
           next == [worker EXCEPT ![e].pc = "loop", ![e].idx = idx + 1]
       IN  IF stop_flag
           THEN /\ o = "end" /\ percent = 100
                /\ worker' = next
                /\ entries' = ProgressCallback(entries, e, idx + 1, Total(e), 100)
           ELSE CASE o = "chunk" ->
                       /\ UNCHANGED worker
                       /\ entries' = ProgressCallback(entries, e, idx + 1, Total(e),
                                                      percent)
                  [] o = "end" ->
                       /\ percent = 100
                       /\ worker' = next
                       /\ entries' = ProgressCallback(entries, e, idx + 1, Total(e), 100)
                  [] OTHER ->
                       /\ percent = 100
                       /\ worker' = next
                       /\ UNCHANGED entries

\* ------------------------------------------------------ the specification
\* the steps of the thread started for entry e
WorkerOf(e) ==
    \/ \E ok \in BOOLEAN : DownloadBegin(e, ok)
    \/ \E o \in ItemOutcomes : DownloadItem(e, o)
    \/ \E o \in ChunkOutcomes, percent \in Percents : DownloadChunk(e, o, percent)

WorkerStep == \E e \in Ids : WorkerOf(e)

Next ==
    \/ \E ok \in BOOLEAN : ConnectToPlex(ok)
    \/ \E sel \in SUBSET (1..Len(ServerMusic)) : AddMusicToQueue(sel)
    \/ \E sel \in SUBSET (1..Len(ServerVideo)) : AddVideoToQueue(sel)
    \/ \E i \in 1..Len(ServerMusic) : OnMusicDoubleClick(i)
    \/ \E i \in 1..Len(ServerVideo) : OnVideoDoubleClick(i)
    \/ ShowQueueWindow
    \/ \E index \in 1..MaxEntries : RemoveFromQueue(index)
    \/ \E confirm \in BOOLEAN : ClearQueue(confirm)
    \/ ProcessQueue
    \/ TimerFire
    \/ StopDownload
    \/ WorkerStep

Spec == Init /\ [][Next]_vars

\* The threads are scheduled fairly and a call scheduled with root.after is
\* eventually made by the event loop; the user's actions are not forced.
FairSpec ==
    /\ Spec
    /\ \A e \in Ids : WF_vars(WorkerOf(e))
    /\ WF_vars(TimerFire)

\* ------------------------------ PlexHandler.download_playlist_items
\* the return statement: (success, message, errors)
PHReturn(run, success, errors) ==
    [run EXCEPT !.pc = "done", !.success = success, !.errors = errors]

\* a final summary that reports success whatever the errors
PHFinalIgnoringErrors(run) ==
    PHReturn(run, TRUE, run.download_errors)

\* the statements after the item loop
PHFinal(run) ==
    IF run.download_errors # <<>>
    THEN PHReturn(run, FALSE, run.download_errors)
    ELSE PHReturn(run, TRUE, <<>>)

\* the call up to the item loop: the early returns for a missing server, an
\* invalid base path, a playlist that is not found, an empty playlist and a
\* directory that cannot be made
PHCall(server, path_ok, found, n, mkdir_ok) ==
    /\ ph.pc = "idle"
    /\ ph' = IF ~server \/ ~path_ok \/ ~found
             THEN PHReturn(ph, FALSE, <<>>)
             ELSE IF n = 0
             THEN PHReturn([ph EXCEPT !.reached_end = TRUE], TRUE, <<>>)
             ELSE IF ~mkdir_ok
             THEN PHReturn([ph EXCEPT !.total = n], FALSE, <<>>)
             ELSE [ph EXCEPT !.pc = "loop", !.total = n]
    /\ UNCHANGED <<guiVars, dl, fn, app>>

PHOutcomes == {"ok", "bad_request", "error"}

\* one round of the item loop: item.download returns or raises, and a raised
\* error is appended to download_errors
PHItem(o) ==
    /\ ph.pc = "loop"
    /\ Len(ph.outcomes) < ph.total
    /\ ph' = [ph EXCEPT
                !.outcomes = Append(@, o),
                !.download_errors =
                    IF o = "ok" THEN @ ELSE Append(@, <<Len(ph.outcomes) + 1, o>>)]
    /\ UNCHANGED <<guiVars, dl, fn, app>>

\* the loop is exhausted: the final message and the return
PHEnd ==
    /\ ph.pc = "loop"
    /\ Len(ph.outcomes) = ph.total
    /\ ph' = PHFinal([ph EXCEPT !.reached_end = TRUE])
    /\ UNCHANGED <<guiVars, dl, fn, app>>

NextPH ==
    \/ \E server, path_ok, found, mkdir_ok \in BOOLEAN, n \in 0..MaxItems :
          PHCall(server, path_ok, found, n, mkdir_ok)
    \/ \E o \in PHOutcomes : PHItem(o)
    \/ PHEnd

SpecPH == Init /\ [][NextPH]_vars

\* ------------------------------ DownloadManager.download_playlist, in detail
\* One playlist is downloaded into one directory, once and then once more.
\* dl.names[i] is the file name of item i, dl.files the playlist directory;
\* sizes are counted in chunks. attempted, fetched, errors, reported, full,
\* cancelled, mismatched, completed, halted and written record what the
\* current run did. quiet says that 0.1 s have passed since the last progress
\* callback of the run, spaced that the last progress callback came 0.1 s or
\* more after the one before it. entry is the queue entry of the run, as the
\* callbacks of _download_with_queue_update leave it.

\* the playlists: the file names of their items, in server order
RECURSIVE NameSeqs(_)
NameSeqs(n) ==
    IF n = 0 THEN {<<>>}
    ELSE LET shorter == NameSeqs(n - 1)
         IN  shorter \cup {Append(t, f) : t \in {u \in shorter : Len(u) = n - 1},
                                          f \in FileNames \cup {NoFileName}}

DLPlaylists == NameSeqs(MaxDLItems) \ {<<>>}

\* a path of its own for each item, whatever its file name
PathApart(names, item) ==
    IF names[item] = NoFileName THEN NoFileName
    ELSE IF item % 2 = 0 THEN "f2" ELSE "f1"

\* filepath = os.path.join(playlist_dir, filename): the file name of the
\* item names its file in the playlist directory
Path(names, item) == names[item]

\* os.path.exists(filepath) finds nothing
ExistsNever(files, name) == FALSE

\* os.path.exists(filepath)
Exists(files, name) == files[name].exists

\* int((downloaded / total_size) * 100); at these sizes the floating point
\* quotient and product are the exact ones
Percent(downloaded, total_size) == (downloaded * 100) \div total_size

\* the entry of a run that is started for playlist p with n items, as
\* process_queue hands it to the thread
DLEntry(p, n) ==
    [PlaylistInfo(p, "none") EXCEPT !.items = n, !.remaining = n,
                                    !.status = "Downloading"]

\* progress_callback of _download_with_queue_update on the entry of the run
ProgressEntry(entry, current, total, percent) ==
    ProgressCallback(<<entry>>, 1, current, total, percent)[1]

\* progress_callback(idx + 1, total_items, filename, percent, ...)
DLReport(run, item, percent) ==
    [run EXCEPT !.entry = ProgressEntry(@, item, Len(run.names), percent),
                !.report = <<item, percent>>,
                !.spaced = run.quiet \/ run.report = <<0, 0>>,
                !.quiet = FALSE,
                !.reported = @ \cup {item},
                !.full = IF percent = 100 THEN @ \cup {item} ELSE @]

\* an item error that ends the run
DLErrorAbort(run, item) ==
    [run EXCEPT !.errors = @ \cup {item}, !.idx = item, !.pc = "done",
                !.total_size = 0, !.downloaded = 0]

\* except Exception: logger.error(...); continue (the locals total_size and
\* downloaded of the round are gone)
DLError(run, item) ==
    [run EXCEPT !.errors = @ \cup {item}, !.idx = item, !.pc = "loop",
                !.total_size = 0, !.downloaded = 0]

\* the start of a run up to the item loop; stop_flag is reset, and when the
\* directory cannot be made or the items cannot be listed the error leaves
\* the function
DLBegin(p, names, ok) ==
    /\ \/ dl.pc = "idle" /\ dl.run = "none"
       \/ /\ dl.pc \in {"done", "raised"}
          /\ dl.run = "first"
          /\ names = dl.names
          /\ p = dl.entry.playlist
    /\ dl' = [dl EXCEPT
                !.run = IF dl.run = "none" THEN "first" ELSE "second",
                !.names = names,
                !.pc = IF ok THEN "loop" ELSE "raised",
                !.idx = 0,
                !.stop_flag = FALSE,
                !.present = {i \in 1..Len(names) :
                                /\ names[i] # NoFileName
                                /\ dl.files[names[i]].exists},
                !.total_size = 0, !.downloaded = 0,
                !.attempted = <<>>, !.fetched = {}, !.errors = {},
                !.report = <<0, 0>>, !.reported = {}, !.full = {},
                !.cancelled = {}, !.mismatched = {}, !.completed = {},
                !.halted = 0, !.written = 0,
                !.quiet = FALSE, !.spaced = TRUE,
                !.entry = IF ok
                          THEN StatusEntry(DLEntry(p, Len(names)),
                                           MsgDownloading(PlaylistTitle(p)))
                          ELSE DLEntry(p, Len(names)),
                !.status = IF ok THEN "Downloading" ELSE @]
    /\ UNCHANGED <<guiVars, ph, fn, app>>

\* what becomes of an item that has no file yet: the request fails, or the
\* response arrives and the file is opened
FetchOutcomes == {"request_error", "open"}

\* a stop that is seen at the head of the loop skips the item and goes on
DLBoundaryContinue(run) ==
    [run EXCEPT !.status = "Stopped", !.halted = run.idx + 1,
                !.entry = StatusEntry(@, MsgStopped),
                !.idx = run.idx + 1]

\* a stop that is seen at the head of the loop: status_callback("Download
\* stopped"); break
DLBoundary(run) ==
    [run EXCEPT !.status = "Stopped", !.halted = run.idx + 1,
                !.entry = StatusEntry(@, MsgStopped), !.pc = "done"]

\* one round of the item loop up to the chunk loop, or the end of the loop
DLItem(o, size) ==
    /\ dl.pc = "loop"
    /\ LET item == dl.idx + 1
           name == Path(dl.names, item)
           run  == [dl EXCEPT !.attempted = Append(@, item)]
       IN  dl' =
             IF dl.idx >= Len(dl.names)
             THEN [dl EXCEPT
                      !.pc = "done",
                      !.entry =
                          IF dl.stop_flag THEN @
                          ELSE StatusEntry(@, MsgCompleted(
                                                  PlaylistTitle(@.playlist))),
                      !.status = IF dl.stop_flag THEN @ ELSE "Completed"]
             ELSE IF dl.stop_flag THEN DLBoundary(dl)
             ELSE IF name = NoFileName THEN DLError(run, item)
             ELSE IF Exists(dl.files, name)
             THEN [DLReport(run, item, 100) EXCEPT !.idx = item]
             ELSE IF o = "request_error"
             THEN DLError(DLReport(run, item, 0), item)
             ELSE [DLReport(run, item, 0) EXCEPT
                      !.pc = "transfer",
                      !.fetched = @ \cup {item},
                      !.total_size = size,
                      !.downloaded = 0,
                      !.files[name] = [exists |-> TRUE, whole |-> FALSE]]
    /\ UNCHANGED <<guiVars, ph, fn, app>>

\* the statements after the chunk loop: the final update with 100%
DLAfterChunks(run, item) ==
    [DLReport(run, item, 100) EXCEPT !.idx = item, !.pc = "loop",
                                     !.total_size = 0, !.downloaded = 0]

\* one round of the chunk loop: the next chunk arrives (and is written unless
\* stop_flag is set), the body ends, or reading raises; tick says that more
\* than 0.1 s have passed since last_update, which is set after the initial
\* progress callback and at each update of the chunk loop
DLChunk(o, tick) ==
    /\ dl.pc = "transfer"
    /\ tick => dl.quiet
    /\ LET item == dl.idx + 1
           name == Path(dl.names, item)
           downloaded == dl.downloaded + 1
       IN  CASE o = "chunk" ->
                  /\ dl.stop_flag \/ dl.downloaded < MaxChunks
                  /\ dl' =
                       IF dl.stop_flag
                       THEN DLAfterChunks(
                                [dl EXCEPT !.cancelled = @ \cup {item}], item)
                       ELSE LET run == [dl EXCEPT
                                          !.downloaded = downloaded,
                                          !.written = @ + 1]
                            IN  IF tick /\ dl.total_size > 0
                                THEN DLReport(run, item,
                                         Percent(downloaded, dl.total_size))
                                ELSE run
             [] o = "end" ->
                  dl' = DLAfterChunks(
                          [dl EXCEPT
                             !.completed = @ \cup {item},
                             !.files[name].whole =
                                 dl.total_size = 0
                                   \/ dl.downloaded = dl.total_size,
                             !.mismatched =
                                 IF dl.total_size > 0
                                      /\ dl.downloaded # dl.total_size
                                 THEN @ \cup {item} ELSE @], item)
             [] OTHER -> dl' = DLError(dl, item)
    /\ UNCHANGED <<guiVars, ph, fn, app>>

\* DownloadManager.stop_download
DLStop ==
    /\ dl.pc \in {"loop", "transfer"}
    /\ dl' = [dl EXCEPT !.stop_flag = TRUE]
    /\ UNCHANGED <<guiVars, ph, fn, app>>

\* time.time(): 0.1 s have passed since the last progress callback
DLTime ==
    /\ dl.pc \in {"loop", "transfer"}
    /\ ~dl.quiet
    /\ dl' = [dl EXCEPT !.quiet = TRUE]
    /\ UNCHANGED <<guiVars, ph, fn, app>>

NextDL ==
    \/ \E p \in Playlists, names \in DLPlaylists, ok \in BOOLEAN :
          DLBegin(p, names, ok)
    \/ \E o \in FetchOutcomes, size \in 0..MaxChunks : DLItem(o, size)
    \/ \E o \in ChunkOutcomes, tick \in BOOLEAN : DLChunk(o, tick)
    \/ DLStop
    \/ DLTime

SpecDL == Init /\ [][NextDL]_vars

\* both item loops, one call at a time
NextLoops ==
    \/ dl.pc = "idle" /\ NextPH
    \/ ph.pc = "idle" /\ NextDL

SpecLoops == Init /\ [][NextLoops]_vars

\* ------------------------------------------- the file name of an item
\* Strings are sequences of characters here.
Reserved == {"<", ">", ":", "\"", "/", "\\", "|", "?", "*"}

\* invalid_chars = '<>:"/\\|?*'
InvalidChars == <<"<", ">", ":", "\"", "/", "\\", "|", "?", "*">>

\* filename.replace(char, '_')
Replace(s, char) == [i \in 1..Len(s) |-> IF s[i] = char THEN "_" ELSE s[i]]

\* DownloadManager._sanitize_filename: the loop over invalid_chars
RECURSIVE SanitizeFrom(_, _)
SanitizeFrom(s, k) ==
    IF k > Len(InvalidChars) THEN s
    ELSE SanitizeFrom(Replace(s, InvalidChars[k]), k + 1)

SanitizeFilename(s) == SanitizeFrom(s, 1)

Digit(d) == CASE d = 0 -> "0" [] d = 1 -> "1" [] d = 2 -> "2" [] d = 3 -> "3"
              [] d = 4 -> "4" [] d = 5 -> "5" [] d = 6 -> "6" [] d = 7 -> "7"
              [] d = 8 -> "8" [] OTHER -> "9"

\* str(n) for n >= 0
RECURSIVE Decimal(_)
Decimal(n) == IF n < 10 THEN <<Digit(n)>>
              ELSE Decimal(n \div 10) \o <<Digit(n % 10)>>

\* f"{n:02d}"
Format02d(n) == IF n < 10 THEN <<"0">> \o Decimal(n) ELSE Decimal(n)

\* an attribute the item does not have
Absent == <<"(absent)">>
Has(item, attr) == item[attr] # Absent

\* " - "
Dash == <<" ", "-", " ">>

\* the name could not be built: an attribute that is used is missing
NoName == <<"(error)">>

\* the file name before the extension, as download_playlist builds it from
\* the type of the item
Stem(item) ==
    IF ~Has(item, "title") THEN NoName
    ELSE IF ~Has(item, "type") THEN SanitizeFilename(item.title)
    ELSE CASE item.type = <<"track">> ->
               IF Has(item, "grandparentTitle") /\ Has(item, "parentTitle")
               THEN LET track_num == IF item.index # 0
                                     THEN Format02d(item.index) \o Dash
                                     ELSE <<>>
                    IN  SanitizeFilename(item.grandparentTitle \o Dash
                            \o item.parentTitle \o Dash \o track_num \o item.title)
               ELSE IF Has(item, "originalTitle")
               THEN SanitizeFilename(item.originalTitle \o Dash \o item.title)
               ELSE SanitizeFilename(item.title)
           [] item.type = <<"episode">> ->
               IF ~Has(item, "grandparentTitle") THEN NoName
               ELSE SanitizeFilename(item.grandparentTitle \o Dash \o <<"S">>
                        \o Format02d(item.parentIndex) \o <<"E">>
                        \o Format02d(item.index) \o Dash \o item.title)
           [] item.type = <<"movie">> ->
               LET year == IF item.year # 0
                           THEN <<" ", "(">> \o Decimal(item.year) \o <<")">>
                           ELSE <<>>
               IN  SanitizeFilename(item.title \o year)
           [] OTHER -> SanitizeFilename(item.title)

\* the file name: the stem and the extension, the container of the first
\* media or mp4
FileName(item) ==
    LET stem == Stem(item)
    IN  IF stem = NoName THEN NoName
        ELSE IF Has(item, "container")
        THEN stem \o <<".">> \o item.container
        ELSE stem \o <<".", "m", "p", "4">>

\* the characters of the metadata strings: a plain one and reserved ones
Alphabet == {"a", "/", "*"}

RECURSIVE TextsOf(_)
TextsOf(n) ==
    IF n = 0 THEN {<<>>}
    ELSE LET shorter == TextsOf(n - 1)
         IN  shorter \cup {Append(t, c) : t \in {u \in shorter : Len(u) = n - 1},
                                          c \in Alphabet}

\* the metadata strings of at most MaxLen characters
Texts == TextsOf(MaxLen)

\* names of artists, albums and shows
Parents == {Absent, <<"b">>, <<":", "b">>}

\* the items whose file name is derived
FNItems ==
    [type : {Absent, <<"track">>, <<"episode">>, <<"movie">>, <<"clip">>},
     title : Texts \cup {Absent},
     grandparentTitle : Parents,
     parentTitle : {Absent, <<"c">>},
     originalTitle : {Absent, <<"?">>},
     index : {0, 7},
     parentIndex : {12},
     year : {0, 1999},
     container : Texts \cup {Absent}]

\* the lines of download_playlist that determine the file name of an item
FNDerive ==
    /\ fn.pc = "input"
    /\ fn' = [fn EXCEPT !.pc = "done", !.name = FileName(fn.item)]
    /\ UNCHANGED <<guiVars, ph, dl, app>>

InitFN ==
    /\ InitGUI
    /\ ph = PHIdle
    /\ dl = DLIdle
    /\ fn \in {[pc |-> "input", item |-> item, name |-> <<>>] : item \in FNItems}
    /\ app = AppBuilt(TRUE)

NextFN == FNDerive

SpecFN == InitFN /\ [][NextFN]_vars

\* ------------------------------------ PlexDownloaderApp (src/main.py)
\* the parameters of PlexHandler.download_playlist_items after self
PHParameters == <<"playlist_title", "base_download_path", "update_callback">>

\* the call in _download_thread: two positional arguments and the keywords
KPositional == 2
KKeywords == {"update_callback", "stop_flag_check"}

\* the call binds: every keyword names a parameter that no positional
\* argument has filled; otherwise Python raises TypeError
Binds ==
    /\ KPositional <= Len(PHParameters)
    /\ \A k \in KKeywords :
          \E i \in (KPositional + 1)..Len(PHParameters) : PHParameters[i] = k

\* _set_all_action_buttons_state(enabled)
ButtonsState(a, enabled) ==
    [a EXCEPT !.action_buttons = enabled,
              !.download_button = enabled /\ a.selected # 0,
              !.stop_button = ~enabled]

\* the playlists shown in the list
KPlaylists == 1..2

\* the directory chooser sets download_dir (ok: to a directory that exists)
KChooseDir(ok) ==
    /\ app' = [app EXCEPT !.dir_ok = ok]
    /\ UNCHANGED <<guiVars, ph, dl, fn>>

\* connect_to_plex: the buttons are disabled and _connect_and_fetch_thread,
\* a @mainthread function, is handed to the clock
KConnect ==
    /\ app.action_buttons
    /\ app.handler
    /\ Len(app.clock) < MaxPending
    /\ app' = [ButtonsState(app, FALSE) EXCEPT !.clock = Append(@, "connect")]
    /\ UNCHANGED <<guiVars, ph, dl, fn>>

\* what filter_playlists_display and _update_playlist_display do to the
\* selection
FilterDisplay(a) == [a EXCEPT !.selected = 0, !.download_button = FALSE]

\* filter_playlists_display and _update_playlist_display
KFilter ==
    /\ app' = FilterDisplay(app)
    /\ UNCHANGED <<guiVars, ph, dl, fn>>

\* select_playlist: a row of the list is chosen (the list is empty without a
\* PlexHandler)
KSelect(p) ==
    /\ app.handler
    /\ app' = [app EXCEPT !.selected = p, !.download_button = TRUE]
    /\ UNCHANGED <<guiVars, ph, dl, fn>>

\* start_download_selected_playlist
KStart ==
    /\ app.download_button
    /\ app.started < MaxThreads
    /\ app' = IF app.selected = 0 \/ ~app.dir_ok
              THEN app
              ELSE [ButtonsState(app, FALSE) EXCEPT
                       !.stop_button = TRUE,
                       !.stop_download_flag = FALSE,
                       !.started = app.started + 1,
                       !.threads[app.started + 1] =
                           [NoThread EXCEPT !.pc = "started"]]
    /\ UNCHANGED <<guiVars, ph, dl, fn>>

\* _download_thread: without a handler an error is shown and the buttons are
\* scheduled to be enabled; otherwise download_playlist_items is called, and
\* when the call binds its result is the final summary and the buttons are
\* scheduled to be enabled
KThread(t) ==
    /\ app.threads[t].pc = "started"
    /\ app' = IF ~app.handler
              THEN [app EXCEPT !.threads[t].pc = "returned",
                               !.threads[t].reenable = TRUE,
                               !.clock = Append(@, "enable")]
              ELSE IF ~Binds
              THEN [app EXCEPT !.threads[t].pc = "raised"]
              ELSE [app EXCEPT !.threads[t].pc = "returned",
                               !.threads[t].summary = TRUE,
                               !.threads[t].reenable = TRUE,
                               !.clock = Append(@, "enable")]
    /\ UNCHANGED <<guiVars, ph, dl, fn>>

\* the first callback of the clock comes due: the body of
\* _connect_and_fetch_thread (ok: the connection and the fetch succeed, and
\* the display of the list is scheduled), the display of the list, or
\* _set_all_action_buttons_state(True)
KClock(ok) ==
    /\ app.clock # <<>>
    /\ LET a == [app EXCEPT !.clock = Tail(@)]
       IN  app' = CASE Head(app.clock) = "connect" ->
                         ButtonsState(
                             [a EXCEPT !.server = ok,
                                       !.clock = IF ok THEN Append(@, "filter")
                                                 ELSE @], TRUE)
                    [] Head(app.clock) = "filter" -> FilterDisplay(a)
                    [] OTHER -> ButtonsState(a, TRUE)
    /\ UNCHANGED <<guiVars, ph, dl, fn>>

\* stop_current_download
KStop ==
    /\ app.stop_button
    /\ app' = [app EXCEPT
                 !.stop_download_flag = TRUE,
                 !.stop_button = FALSE,
                 !.threads = [t \in 1..MaxThreads |->
                                 IF app.threads[t].pc = "started"
                                 THEN [app.threads[t] EXCEPT !.stopped = TRUE]
                                 ELSE app.threads[t]]]
    /\ UNCHANGED <<guiVars, ph, dl, fn>>

InitApp ==
    /\ InitGUI
    /\ ph = PHIdle
    /\ dl = DLIdle
    /\ fn = FNIdle
    /\ app \in {AppBuilt(handler) : handler \in BOOLEAN}

NextApp ==
    \/ \E ok \in BOOLEAN : KChooseDir(ok)
    \/ KConnect
    \/ KFilter
    \/ \E p \in KPlaylists : KSelect(p)
    \/ KStart
    \/ \E t \in 1..MaxThreads : KThread(t)
    \/ \E ok \in BOOLEAN : KClock(ok)
    \/ KStop

SpecApp == InitApp /\ [][NextApp]_vars

\* ------------------------------------------------------------ properties
Status(e) == entries[e].status
InQueue(e) == e \in Range(download_queue)
Terminal == {"Completed", "Stopped"}
AddOps == {"add_music", "add_video", "music_double_click", "video_double_click"}

\* C1: at no time are two download_playlist invocations running.
C1_OneDownloadAtATime ==
    Cardinality({e \in Ids : Running(e)}) <= 1

\* C2: an entry that process_queue turns from Queued to Downloading is the
\* first Queued entry in insertion order, so that in the queue no entry has
\* left Queued while an entry before it is still Queued.
C2_InsertionOrder ==
    /\ [](\A i, j \in 1..Len(download_queue) :
            i < j /\ Status(download_queue[j]) # "Queued"
                => Status(download_queue[i]) # "Queued")
    /\ [][\A e \in Ids :
            Status(e) = "Queued" /\ entries'[e].status = "Downloading"
                => \E i \in 1..Len(download_queue) :
                      /\ download_queue[i] = e
                      /\ \A j \in 1..(i - 1) :
                            Status(download_queue[j]) # "Queued"]_vars

\* the second entry of the queue is being downloaded after the download of
\* the first one has ended
C2_Witness ==
    /\ Len(download_queue) >= 2
    /\ Status(download_queue[1]) \in Terminal
    /\ worker[download_queue[1]].pc = "returned"
    /\ ~Finishes(entries[download_queue[1]].title)
    /\ Status(download_queue[2]) = "Downloading"

\* C3: the status of an entry moves along Queued -> Downloading ->
\* {Completed, Stopped} only: a new entry is Queued, Completed and Stopped
\* are never left, and Downloading is entered from Queued only.
C3_StatusMachine ==
    [][\A e \in Ids :
        /\ Status(e) = "none" => entries'[e].status \in {"none", "Queued"}
        /\ Status(e) = "Queued" => entries'[e].status \in {"Queued", "Downloading"}
        /\ Status(e) = "Downloading"
              => entries'[e].status \in {"Downloading", "Completed", "Stopped"}
        /\ Status(e) \in Terminal => entries'[e].status = Status(e)]_vars

\* C4: every entry that was made Downloading becomes Completed or Stopped;
\* stated for the end of its thread, after which nothing changes its status:
\* when the thread of an entry has ended, the entry is Completed or Stopped.
C4_DownloadEndsTerminal ==
    \A e \in Ids :
        worker[e].pc \in {"returned", "raised"} => Status(e) \in Terminal

\* C5: when a status callback has marked an entry Completed and the server is
\* connected, the first Queued entry of the queue becomes Downloading
\* without a user action (unless the user takes it out of the queue).
C5_AutoAdvance ==
    \A e \in Ids :
        (/\ last.op = "completed"
         /\ connected
         /\ \E i \in 1..Len(download_queue) :
               /\ download_queue[i] = e
               /\ Status(e) = "Queued"
               /\ \A j \in 1..(i - 1) : Status(download_queue[j]) # "Queued")
        ~> (Status(e) # "Queued" \/ ~InQueue(e))

\* the download of an entry has ended with Completed, no stop was requested,
\* and the next entry of the queue is waiting
C5_Witness ==
    /\ last.op = "completed"
    /\ ~stop_flag
    /\ connected
    /\ \E i, j \in 1..Len(download_queue) :
        /\ i < j
        /\ Status(download_queue[i]) = "Completed"
        /\ worker[download_queue[i]].pc = "returned"
        /\ ~Finishes(entries[download_queue[i]].title)
        /\ Status(download_queue[j]) = "Queued"

\* C6: an enqueue of a title that a Queued or Downloading entry of the queue
\* has appends no entry of that title, and no enqueue changes or moves an
\* entry that is in the queue.
C6_DuplicateRejected ==
    [][last'.op \in AddOps =>
        /\ \A e \in Ids :
              Status(e) = "none" /\ entries'[e].status # "none"
                 => ~ \E f \in Ids :
                        /\ InQueue(f)
                        /\ Status(f) \in {"Queued", "Downloading"}
                        /\ entries[f].title = entries'[e].title
        /\ Len(download_queue') >= Len(download_queue)
        /\ SubSeq(download_queue', 1, Len(download_queue)) = download_queue
        /\ \A f \in Ids : InQueue(f) => entries'[f] = entries[f]
        /\ (last'.dup /\ last'.arg = 0 => download_queue' = download_queue)]_vars

\* an enqueue handler ran on a title that a Queued or Downloading entry has,
\* and appended nothing
C6_Witness ==
    /\ last.op \in AddOps
    /\ last.dup
    /\ last.arg = 0
    /\ download_queue # <<>>

\* C7: an enqueue of a title that only Completed or Stopped entries of the
\* queue have appends a new Queued entry of that title.
C7_TerminalTitleEnqueued ==
    last.op \in AddOps /\ last.old => last.retried

\* C8: a remove request never takes the Downloading entry out of the queue.
C8_RemoveKeepsDownloading ==
    [][last'.op = "remove_from_queue" =>
        \A e \in Ids :
            InQueue(e) /\ Status(e) = "Downloading"
                => e \in Range(download_queue')]_vars

\* C9: clear_queue leaves the queue unchanged while an entry of it is
\* Downloading or a download_playlist invocation is running.
C9_ClearOnlyWhenIdle ==
    [][(/\ last'.op = "clear_queue"
        /\ \/ \E e \in Ids : InQueue(e) /\ Status(e) = "Downloading"
           \/ \E e \in Ids : Running(e))
            => download_queue' = download_queue]_vars

C17_NoReservedInFileName ==
    fn.pc = "done" /\ fn.name # NoName =>
        \A i \in 1..Len(fn.name) : fn.name[i] \notin Reserved

\* C11: in both item loops the items are attempted in server order, an item
\* error is recorded, and no item error ends the loop: a run of
\* download_playlist that was not halted by a stop at an item boundary, and
\* a call of download_playlist_items that recorded an error, have attempted
\* every item.
C11_ItemErrorIsolated ==
    /\ \A k \in 1..Len(dl.attempted) : dl.attempted[k] = k
    /\ dl.errors \subseteq Range(dl.attempted)
    /\ dl.pc = "done" /\ dl.halted = 0 => Len(dl.attempted) = Len(dl.names)
    /\ \A k \in 1..Len(ph.outcomes) :
          ph.outcomes[k] # "ok" =>
              \E j \in 1..Len(ph.download_errors) :
                  ph.download_errors[j] = <<k, ph.outcomes[k]>>
    /\ ph.pc = "done" /\ ph.download_errors # <<>> =>
          Len(ph.outcomes) = ph.total

\* the first of two items failed and the second was transferred to its end
C11_Witness ==
    /\ dl.pc = "done"
    /\ dl.errors = {1}
    /\ dl.attempted = <<1, 2>>
    /\ 2 \in dl.completed

\* C12: an item whose chunk loop was left because stop_flag was seen has no
\* destination file unless the file holds the whole content, and is not
\* reported at 100%.
C12_CancelledLeavesNoPartialFile ==
    \A item \in dl.cancelled :
        /\ dl.files[dl.names[item]].exists => dl.files[dl.names[item]].whole
        /\ item \notin dl.full

\* C13: once stop_flag is seen at an item boundary the run is over with the
\* status Stopped: the item at the boundary and the items after it are
\* neither attempted, fetched nor reported, and the files of the items
\* transferred to their end in this run are in the directory.
C13_StopAtBoundaryHalts ==
    /\ dl.halted > 0 =>
          /\ dl.pc = "done"
          /\ dl.status = "Stopped"
          /\ \A item \in dl.halted..Len(dl.names) :
                /\ item \notin Range(dl.attempted)
                /\ item \notin dl.fetched
                /\ item \notin dl.reported
    /\ \A item \in dl.completed : dl.files[dl.names[item]].exists

\* the stop was seen before the second item, after the first was transferred
C13_Witness ==
    /\ dl.halted = 2
    /\ Len(dl.names) = 2
    /\ 1 \in dl.completed
    /\ dl.files[dl.names[1]].exists

\* the items of the playlist
DLAll == 1..Len(dl.names)

\* C14 as stated: a second run on the same playlist and directory writes no
\* byte and fetches nothing, and when it completes every item was reported
\* at 100%.
C14_SecondRunWritesNothing ==
    dl.run = "second" =>
        /\ dl.written = 0
        /\ dl.fetched = {}
        /\ dl.pc = "done" /\ dl.status = "Completed" => dl.full = DLAll

\* C14: a second run that finds a destination file for every item writes no
\* byte, fetches nothing and meets no item error; every item it reaches is
\* reported at 100%, and when it completes these are all the items.
C14_SecondRunOverFilesWritesNothing ==
    dl.run = "second" /\ dl.present = DLAll =>
        /\ dl.written = 0
        /\ dl.fetched = {}
        /\ dl.errors = {}
        /\ Range(dl.attempted) = dl.full
        /\ dl.pc = "done" /\ dl.status = "Completed" => dl.full = DLAll

\* a second run over two items with different files has completed
C14_Witness ==
    /\ dl.run = "second"
    /\ dl.pc = "done"
    /\ dl.status = "Completed"
    /\ Len(dl.names) = 2
    /\ dl.names[1] # dl.names[2]
    /\ dl.present = {1, 2}
    /\ dl.full = {1, 2}

\* C15: an item whose body ended with a byte count other than a known,
\* positive content-length is an item error and is not reported at 100%.
C15_SizeMismatchIsError ==
    \A item \in dl.mismatched :
        /\ item \in dl.errors
        /\ item \notin dl.full

\* C20: every percent passed to the progress callback is in 0..100.
C20_PercentInRange ==
    dl.report[2] \in 0..100

\* C16: when download_playlist could not make the directory or list the
\* items, the entry is not left Downloading, and is_downloading is not left
\* set once no thread is running.
C16_DirectoryFailureReported ==
    \A e \in Ids :
        worker[e].pc = "raised" =>
            /\ Status(e) # "Downloading"
            /\ (\A x \in Ids : ~Running(x)) => ~is_downloading

\* C18: a round of the item loop or of the chunk loop of the thread of an
\* entry that goes on (its progress callbacks, no last status callback)
\* leaves every other entry as it is, and leaves the status, title and item
\* count of its own entry.
C18_ProgressTouchesOwnCounters ==
    [][\A e \in Ids :
          (/\ worker[e].pc \in {"loop", "transfer"}
           /\ worker'[e].pc \in {"loop", "transfer"}
           /\ worker'[e] # worker[e])
          => /\ \A x \in Ids \ {e} : entries'[x] = entries[x]
             /\ entries'[e] = [entries[e] EXCEPT
                                  !.downloaded = entries'[e].downloaded,
                                  !.remaining = entries'[e].remaining]]_vars

\* a progress callback has counted an item of the entry that is downloaded,
\* and the entry after it is Queued with its counters as they were made
C18_Witness ==
    \E i, j \in 1..Len(download_queue) :
        /\ i < j
        /\ Status(download_queue[i]) = "Downloading"
        /\ worker[download_queue[i]].pc \in {"loop", "transfer"}
        /\ entries[download_queue[i]].downloaded > 0
        /\ Status(download_queue[j]) = "Queued"
        /\ entries[download_queue[j]].downloaded = 0
        /\ entries[download_queue[j]].remaining = entries[download_queue[j]].items

\* C19 as stated: the process_queue run that the Stopped status callback
\* schedules starts no entry.
C19_StopHaltsQueue ==
    [][last.op = "stopped" /\ timers' < timers
          => \A e \in Ids :
                ~(Status(e) = "Queued" /\ entries'[e].status = "Downloading")]_vars

\* C19: the status callback of a stop clears is_downloading and schedules a
\* run of process_queue, and that run, with the server connected and a
\* Queued entry in the queue, makes a Queued entry Downloading without a
\* user action.
C19_StopAdvancesQueue ==
    [][/\ last'.op = "stopped" /\ worker' # worker
          => timers' = timers + 1 /\ ~is_downloading'
       /\ (/\ last.op = "stopped"
           /\ timers' < timers
           /\ connected
           /\ \E i \in 1..Len(download_queue) :
                 Status(download_queue[i]) = "Queued")
          => \E i \in 1..Len(download_queue) :
                /\ Status(download_queue[i]) = "Queued"
                /\ entries'[download_queue[i]].status = "Downloading"
                /\ worker'[download_queue[i]].pc = "started"]_vars

\* a stop has ended the thread of an entry, its process_queue run is
\* pending, and an entry after it is Queued
C19_Witness ==
    /\ last.op = "stopped"
    /\ timers > 0
    /\ connected
    /\ \E i, j \in 1..Len(download_queue) :
        /\ i < j
        /\ Status(download_queue[i]) = "Stopped"
        /\ worker[download_queue[i]].pc = "returned"
        /\ Status(download_queue[j]) = "Queued"

\* C21: every progress callback of a run comes 0.1 s or more after the
\* progress callback before it.
C21_ProgressRateLimited ==
    dl.spaced

\* C22: an item that has the file name of an earlier item of the playlist
\* whose file is in the directory (it was there when the run began, or the
\* earlier item was fetched in this run) is reported at 100% and not fetched,
\* so that nothing is written for it.
C22_SameNameSameDestination ==
    \A i, j \in 1..Len(dl.attempted) :
        (/\ i < j
         /\ dl.names[i] = dl.names[j]
         /\ dl.names[i] # NoFileName
         /\ i \in dl.fetched \cup dl.present)
        => j \in dl.full /\ j \notin dl.fetched

\* the first run fetched the first of two items of one name to its end and
\* wrote a chunk for it, and went past the second
C22_Witness ==
    /\ dl.run = "first"
    /\ dl.pc = "done"
    /\ dl.names \in {<<"f1", "f1">>, <<"f2", "f2">>}
    /\ dl.attempted = <<1, 2>>
    /\ dl.fetched = {1}
    /\ 1 \in dl.completed
    /\ dl.written = 1
    /\ 2 \in dl.full

\* C23: a download thread of PlexDownloaderApp that has ended after
\* stop_current_download was called while it ran has delivered the final
\* summary and has scheduled the action buttons to be enabled.
C23_StoppedThreadEndsWithSummary ==
    \A t \in 1..MaxThreads :
        app.threads[t].stopped /\ app.threads[t].pc # "started" =>
            app.threads[t].summary /\ app.threads[t].reenable

\* C24: a stop that is requested while the thread of a Downloading entry
\* runs, its first statement included, is not lost: the step that follows
\* the request leaves stop_flag set unless it is the status callback of the
\* stop, which makes the entry Stopped.
C24_StopRequestKept ==
    [][(/\ last.op = "stop_download"
        /\ \E e \in Ids : Running(e) /\ Status(e) = "Downloading")
       => \/ stop_flag'
          \/ \E e \in Ids : Status(e) = "Downloading"
                               /\ entries'[e].status = "Stopped"]_vars

\* C25: is_downloading is true exactly when one entry of download_queue has
\* the status Downloading.
C25_FlagIffOneDownloading ==
    is_downloading <=>
        Cardinality({i \in 1..Len(download_queue) :
                        Status(download_queue[i]) = "Downloading"}) = 1

\* C26: an entry is Completed only when its download_playlist call has gone
\* through all the items and returned, and Stopped only when the call has
\* returned from a stop seen before the last item was done.
C26_StatusFollowsLoop ==
    \A e \in Ids :
        /\ Status(e) = "Completed" =>
              worker[e].pc = "returned" /\ worker[e].idx = Total(e)
        /\ Status(e) = "Stopped" =>
              worker[e].pc = "returned" /\ worker[e].idx < Total(e)

\* C27: an entry that is Completed with downloaded = items and remaining = 0
\* belongs to a run without an item error, in which every item was skipped
\* over its file or transferred to the end of its body.
C27_CompletedMeansAllItems ==
    (/\ dl.pc = "done"
     /\ dl.entry.status = "Completed"
     /\ dl.entry.downloaded = dl.entry.items
     /\ dl.entry.remaining = 0)
    => /\ dl.errors = {}
       /\ \A item \in DLAll :
             item \in dl.completed \/ (item \in dl.full /\ item \notin dl.fetched)

\* C28: within a run, after every step the counters of the entry satisfy
\* 0 <= downloaded <= total and downloaded + remaining = total, and
\* downloaded has not decreased.
C28_CountersInRangeAndMonotone ==
    [][dl'.run = dl.run =>
          /\ dl'.entry.downloaded >= dl.entry.downloaded
          /\ dl'.entry.downloaded \in 0..Len(dl'.names)
          /\ dl'.entry.downloaded + dl'.entry.remaining = Len(dl'.names)]_vars

\* C29: after a connect call that returned (False, message) the connection
\* is not connected.
C29_FailedConnectDisconnects ==
    last.op = "connect_failed" => ~connected

\* C30: the queue holds entries only when the lists came from the server,
\* and every entry of the queue holds a playlist of the server: an enqueue
\* of an element that is known from the cache file only appends nothing.
C30_QueueHoldsLiveHandles ==
    download_queue # <<>> =>
        /\ has_object
        /\ \A i \in 1..Len(download_queue) :
              entries[download_queue[i]].playlist \in Playlists

\* a double click on an element of the cached list has left the queue empty
C30_Witness ==
    /\ last.op = "music_double_click"
    /\ ~has_object
    /\ download_queue = <<>>

====
